---- MODULE Spec2Model ----
(***************************************************************************)
(* Open Auralis Tools (OpenAuralisTools_8-comments.ino): the menu state    *)
(* machine driven by a rotary encoder and its button, the beat worker, the *)
(* environment worker, the stretched frequency table and the stored        *)
(* stretch setting.                                                        *)
(*                                                                         *)
(* Numbers.  The program's floats are kept in fixed point:                 *)
(*   octaveStretch, a440OffsetCents : hundredths (0.1f is 10)              *)
(*   frequencies                    : centi-Hz (440.00f is 44000)          *)
(*   2^x ratios                     : millionths                           *)
(* Times are milliseconds.  millis() is not kept; the three differences    *)
(* the program takes of it are kept instead, each capped at the largest    *)
(* value the program compares it with:                                     *)
(*   heldTime    = now - buttonPressTime                                   *)
(*   sinceUpdate = millis() - lastUpdate                                   *)
(*   sinceBeat   = currentMillis - lastBeatMillis                          *)
(***************************************************************************)
EXTENDS Integers, Sequences, FiniteSets, TLC

VARIABLES
    currentState,            \* MenuState currentState
    selectedItem,            \* int selectedItem
    assistState,             \* AssistState assistState
    assistTopSelectedItem,   \* int assistTopSelectedItem
    assistToneIndex,         \* int assistToneIndex
    octaveStretch,           \* float octaveStretch           (hundredths)
    a440State,               \* A440State a440State
    a440SelectedItem,        \* int a440SelectedItem
    a440OffsetCents,         \* float a440OffsetCents         (hundredths)
    toneStarted,             \* bool toneStarted
    selectedBeatRateIndex,   \* int selectedBeatRateIndex
    assistFrequencies,       \* float assistFrequencies[5]    (centi-Hz)
    position,                \* the counter of RotaryEncoder encoder
    lastPos,                 \* int lastPos
    lastButtonState,         \* uiTask: static bool lastButtonState
    buttonHeld,              \* uiTask: static bool buttonHeld
    heldTime,                \* uiTask: now - buttonPressTime while held, else 0
    sinceUpdate,             \* uiTask: millis() - lastUpdate
    sinceBeat,               \* handleBeatRate: millis() - lastBeatMillis
    prefs,                   \* Preferences "auralis": <<>> or <<stretch>>
    pin8,                    \* what tone()/noTone() left on GPIO8
    screen,                  \* what the last renderMenu() drew
    calls,                   \* gateway calls of the last step, in order
    uiPc,                    \* uiTask's place in its loop body
    uiEvent,                 \* the button branch uiTask took last
    rotated,                 \* uiTask applied a rotate update last
    still,                   \* no physical turn since a settled transition
    tickGap,                 \* ms between the last two ticks of one rate
    beatSteady,              \* BEAT_MENU and rate unchanged since last tick
    turns,                   \* physical turns of the knob so far
    presses,                 \* presses of the button so far
    audioPc,                 \* audioTask's place in its loop body
    envPc                    \* envTask's place in its loop body

vars == << currentState, selectedItem, assistState, assistTopSelectedItem,
           assistToneIndex, octaveStretch, a440State, a440SelectedItem,
           a440OffsetCents, toneStarted, selectedBeatRateIndex,
           assistFrequencies, position, lastPos, lastButtonState, buttonHeld,
           heldTime, sinceUpdate, sinceBeat, prefs, pin8, screen, calls,
           uiPc, uiEvent, rotated, still, tickGap, beatSteady,
           turns, presses, audioPc, envPc >>

(***************************************************************************)
(* Bounds of the model.                                                    *)
(***************************************************************************)
\* Time passes in steps of TickMs between two passes of uiTask.
TickMs == 800
\* A fast spin of the knob, in detents: more than any legal range is wide.
Spin == 600
\* Physical turns of the knob in one behaviour.
MaxTurns == 3
\* Presses of the button in one behaviour.
MaxPresses == 4

(***************************************************************************)
(* Program constants.                                                      *)
(***************************************************************************)
DebounceMs == 150
LongPressMs == 800
AudioDelayMs == 5
BeatTickMs == 30
BeatTickHz == 1000
StretchLimit == 300
OffsetLimit == 5000
BpsToCents == 391
A4Hz == 44000
Semitones4Down == 793701
Semitones8Down == 629961
Million == 1000 * 1000
BeatCapMs == 1000

mainMenu == << "Tone Generator", "Beat Rates", "Environment" >>
toneMenu == << "A440", "Tuning Assist" >>
beatMenu == << "1 BPS", "3 BPS", "5 BPS", "7 BPS", "9 BPS", "11 BPS" >>
a440Menu == << "Play", "Set Offset", "Back" >>
assistTones == << "F3", "A3", "C#4", "F4", "A4", "Back" >>
assistTopMenu == << "Play Tones", "Octave Stretch", "Back" >>
baseFrequencies == << 17461, 22000, 27718, 34923, 44000 >>
beatRates == << 1, 3, 5, 7, 9, 11 >>

MenuStates == { "MAIN_MENU", "TONE_MENU", "BEAT_MENU", "ENV_MENU",
                "TONE_PLAY_A440", "TONE_PLAY_CHROMATIC", "TONE_ASSIST" }
AssistStates == { "ASSIST_TOP", "ASSIST_MENU", "ASSIST_PLAYING", "ASSIST_STRETCH" }
A440States == { "A440_MENU", "A440_OFFSET" }

(***************************************************************************)
(* Arithmetic.                                                             *)
(***************************************************************************)
Min(a, b) == IF a < b THEN a ELSE b

Abs(a) == IF a < 0 THEN -a ELSE a

\* Arduino's macro: ((amt)<(low)?(low):((amt)>(high)?(high):(amt)))
constrain(amt, low, high) ==
    IF amt < low THEN low ELSE IF amt > high THEN high ELSE amt

\* float -> int conversion of C++: towards zero.  n / d for d > 0.
TruncDiv(n, d) == IF n >= 0 THEN n \div d ELSE -((-n) \div d)

\* round(): to nearest, halves away from zero.  n / d for d > 0.
RoundDiv(n, d) == IF n >= 0 THEN (2 * n + d) \div (2 * d)
                  ELSE -((2 * (-n) + d) \div (2 * d))

\* pow(2.0, cents / 1200.0) in millionths, cents given in thousandths:
\* exp(x) = 1 + x + x^2/2 + x^3/6 with x = cents * ln(2) / 1200.
Pow2Cents(milliCents) ==
    LET x  == RoundDiv(milliCents * 5776, 10000)
        x2 == RoundDiv(x * x, 2 * Million)
        x3 == RoundDiv(x2 * x, 3 * Million)
    IN  Million + x + x2 + x3

\* f * ratio for f in centi-Hz and ratio in millionths.
MulRatio(f, ratio) ==
    (((f \div 1000) * ratio) \div 1000) + RoundDiv((f % 1000) * ratio, Million)

\* 440 * pow(2.0, a440OffsetCents / 1200.0), in centi-Hz.
A440Freq(offsetCents) == MulRatio(A4Hz, Pow2Cents(offsetCents * 10))

\* tone(pin, frequency) takes an unsigned int and playTone(int freq) an int.
ToHz(centiHz) == centiHz \div 100

(***************************************************************************)
(* The program's memory as one record, so that a handler is an operator    *)
(* from memory to memory and a task step is a composition of handlers.     *)
(***************************************************************************)
Mem ==
    [ currentState |-> currentState, selectedItem |-> selectedItem,
      assistState |-> assistState,
      assistTopSelectedItem |-> assistTopSelectedItem,
      assistToneIndex |-> assistToneIndex, octaveStretch |-> octaveStretch,
      a440State |-> a440State, a440SelectedItem |-> a440SelectedItem,
      a440OffsetCents |-> a440OffsetCents, toneStarted |-> toneStarted,
      selectedBeatRateIndex |-> selectedBeatRateIndex,
      assistFrequencies |-> assistFrequencies, position |-> position,
      lastPos |-> lastPos, lastButtonState |-> lastButtonState,
      buttonHeld |-> buttonHeld, heldTime |-> heldTime,
      sinceUpdate |-> sinceUpdate, prefs |-> prefs, pin8 |-> pin8,
      screen |-> screen, calls |-> << >>, uiEvent |-> uiEvent,
      rotated |-> rotated ]

\* The assignment of a memory record to the variables it was read from.
Store(m) ==
    /\ currentState' = m.currentState
    /\ selectedItem' = m.selectedItem
    /\ assistState' = m.assistState
    /\ assistTopSelectedItem' = m.assistTopSelectedItem
    /\ assistToneIndex' = m.assistToneIndex
    /\ octaveStretch' = m.octaveStretch
    /\ a440State' = m.a440State
    /\ a440SelectedItem' = m.a440SelectedItem
    /\ a440OffsetCents' = m.a440OffsetCents
    /\ toneStarted' = m.toneStarted
    /\ selectedBeatRateIndex' = m.selectedBeatRateIndex
    /\ assistFrequencies' = m.assistFrequencies
    /\ position' = m.position
    /\ lastPos' = m.lastPos
    /\ lastButtonState' = m.lastButtonState
    /\ buttonHeld' = m.buttonHeld
    /\ heldTime' = m.heldTime
    /\ sinceUpdate' = m.sinceUpdate
    /\ prefs' = m.prefs
    /\ pin8' = m.pin8
    /\ screen' = m.screen
    /\ calls' = m.calls
    /\ uiEvent' = m.uiEvent
    /\ rotated' = m.rotated
    /\ beatSteady' = ( /\ beatSteady
                       /\ m.currentState = "BEAT_MENU"
                       /\ m.selectedBeatRateIndex = selectedBeatRateIndex )
    /\ tickGap' = IF beatSteady' THEN tickGap ELSE -1

(***************************************************************************)
(* GPIO8: tone(), noTone().                                                *)
(***************************************************************************)
Silent == [ kind |-> "off", hz |-> 0, left |-> 0 ]

\* tone(8, freq): a square wave until the next tone() or noTone().
tone(m, centiHz) ==
    [ m EXCEPT !.pin8 = [ kind |-> "tone", hz |-> ToHz(centiHz), left |-> 0 ],
               !.calls = Append(@, "tone") ]

playTone(m, centiHz) == tone(m, ToHz(centiHz) * 100)

stopTone(m) == [ m EXCEPT !.pin8 = Silent, !.calls = Append(@, "noTone") ]

(***************************************************************************)
(* Preferences.                                                            *)
(***************************************************************************)
\* prefs.getFloat("stretch", 0.0f)
getFloat(p) == IF p = << >> THEN 0 ELSE p[1]

\* A slip: the setting is stored as a whole number of stretch units.
saveStretchSetting_Whole(m) ==
    [ m EXCEPT !.prefs = << TruncDiv(m.octaveStretch, 100) * 100 >>,
               !.calls = Append(@, "putFloat") ]

saveStretchSetting_NoWrite(m) == [ m EXCEPT !.calls = Append(@, "putFloat") ]

\* prefs.putFloat("stretch", octaveStretch)
saveStretchSetting(m) ==
    [ m EXCEPT !.prefs = << m.octaveStretch >>, !.calls = Append(@, "putFloat") ]

(***************************************************************************)
(* The frequency table.                                                    *)
(***************************************************************************)
\* stretchCents = octaveStretch * BPS_TO_CENTS, in thousandths of a cent
stretchCents(stretch) == RoundDiv(stretch * BpsToCents, 10)

\* A slip: A4 is taken an octave above the stretched A3 instead of fixed.
updateAssistFreqsFromStretch_A4Stretched(m) ==
    LET down == Pow2Cents(-stretchCents(m.octaveStretch))
        A3   == MulRatio(2 * A4Hz, down) \div 4
        F4   == MulRatio(A4Hz, Semitones4Down)
        F3   == MulRatio(3 * F4, down) \div 6
        Cs4  == MulRatio(A4Hz, Semitones8Down)
    IN  [ m EXCEPT !.assistFrequencies = << F3, A3, Cs4, F4, 2 * A3 >> ]

updateAssistFreqsFromStretch(m) ==
    LET down   == Pow2Cents(-stretchCents(m.octaveStretch))
        A4     == A4Hz
        A4_2nd == 2 * A4
        targetA3_4th == MulRatio(A4_2nd, down)
        A3     == targetA3_4th \div 4
        F4     == MulRatio(A4, Semitones4Down)
        F4_3rd == 3 * F4
        targetF3_6th == MulRatio(F4_3rd, down)
        F3     == targetF3_6th \div 6
        Cs4    == MulRatio(A4, Semitones8Down)
    IN  [ m EXCEPT !.assistFrequencies = << F3, A3, Cs4, F4, A4 >> ]

playAssistTone(m) ==
    IF m.assistToneIndex = 5 THEN m
    ELSE LET m1 == updateAssistFreqsFromStretch(m)
         IN  tone(m1, m1.assistFrequencies[m1.assistToneIndex + 1])

(***************************************************************************)
(* The display.  A view is what the renderer reads to draw the screen.     *)
(***************************************************************************)
\* label[i] of a C array: outside the array the read is of foreign memory.
Label(menu, i) == IF i >= 0 /\ i < Len(menu) THEN menu[i + 1] ELSE "?"

View(state, text, num, flag) ==
    [ state |-> state, text |-> text, num |-> num, flag |-> flag ]

Splash == View("setup", "Open Auralis Tools", 0, FALSE)

renderAssistMenu(m) ==
    CASE m.assistState = "ASSIST_TOP" ->
            View("ASSIST_TOP", Label(assistTopMenu, m.assistTopSelectedItem),
                 m.assistTopSelectedItem, FALSE)
      [] m.assistState = "ASSIST_MENU" ->
            View("ASSIST_MENU", Label(assistTones, m.assistToneIndex),
                 m.assistToneIndex, FALSE)
      [] m.assistState = "ASSIST_PLAYING" ->
            View("ASSIST_PLAYING", Label(assistTones, m.assistToneIndex),
                 m.assistToneIndex, TRUE)
      [] m.assistState = "ASSIST_STRETCH" ->
            View("ASSIST_STRETCH",
                 IF m.octaveStretch > 1 THEN "Widening"
                 ELSE IF m.octaveStretch < -1 THEN "Narrowing"
                 ELSE "Unstretched",
                 m.octaveStretch, FALSE)

renderMenu(m) ==
    LET v == CASE m.currentState = "MAIN_MENU" ->
                    View("MAIN_MENU", Label(mainMenu, m.selectedItem),
                         m.selectedItem, FALSE)
               [] m.currentState = "TONE_MENU" ->
                    View("TONE_MENU", Label(toneMenu, m.selectedItem),
                         m.selectedItem, FALSE)
               [] m.currentState = "BEAT_MENU" ->
                    View("BEAT_MENU", Label(beatMenu, m.selectedItem),
                         m.selectedItem, FALSE)
               [] m.currentState = "ENV_MENU" ->
                    View("ENV_MENU", "Temp/Humidity", 0, FALSE)
               [] m.currentState = "TONE_PLAY_A440" ->
                    View("TONE_PLAY_A440", "A440 Generator",
                         m.a440OffsetCents, m.toneStarted)
               [] m.currentState = "TONE_PLAY_CHROMATIC" ->
                    View("TONE_PLAY_CHROMATIC", "Chromatic Scale...", 0, FALSE)
               [] m.currentState = "TONE_ASSIST" -> renderAssistMenu(m)
    IN  [ m EXCEPT !.screen = v, !.calls = Append(@, "render") ]

(***************************************************************************)
(* Select dispatch.                                                        *)
(***************************************************************************)
getMenuLength(state) ==
    CASE state = "MAIN_MENU" -> Len(mainMenu)
      [] state = "TONE_MENU" -> Len(toneMenu)
      [] state = "BEAT_MENU" -> Len(beatMenu)
      [] OTHER -> 0

handleMainMenuSelect(m) ==
    CASE m.selectedItem = 0 -> [ m EXCEPT !.currentState = "TONE_MENU" ]
      [] m.selectedItem = 1 -> [ m EXCEPT !.currentState = "BEAT_MENU" ]
      [] m.selectedItem = 2 -> [ m EXCEPT !.currentState = "ENV_MENU" ]
      [] OTHER -> m

enterToneAssist(m) ==
    [ m EXCEPT !.currentState = "TONE_ASSIST",
               !.assistState = "ASSIST_TOP",
               !.assistTopSelectedItem = 0,
               !.position = 0 ]

\* A slip: A440 is entered without setting the encoder.
handleToneMenuSelect_NoProjection(m) ==
    CASE m.selectedItem = 0 -> [ m EXCEPT !.currentState = "TONE_PLAY_A440" ]
      [] m.selectedItem = 1 -> enterToneAssist(m)
      [] OTHER -> m

handleToneMenuSelect(m) ==
    CASE m.selectedItem = 0 ->
            [ m EXCEPT !.currentState = "TONE_PLAY_A440",
                       !.position = TruncDiv(m.a440OffsetCents * 10, 100) ]
      [] m.selectedItem = 1 -> enterToneAssist(m)
      [] OTHER -> m

handleA440Select(m) ==
    CASE m.a440SelectedItem = 0 ->
            [ playTone(m, A440Freq(m.a440OffsetCents)) EXCEPT !.toneStarted = TRUE ]
      [] m.a440SelectedItem = 1 ->
            [ m EXCEPT !.a440State = "A440_OFFSET",
                       !.position = TruncDiv(m.a440OffsetCents * 10, 100) ]
      [] m.a440SelectedItem = 2 ->
            [ stopTone(m) EXCEPT !.toneStarted = FALSE,
                                 !.currentState = "TONE_MENU",
                                 !.position = m.selectedItem ]
      [] OTHER -> m

\* A slip: select in ASSIST_PLAYING leaves the tone list, and the encoder is
\* set to the truncated stretch.
handleToneAssistSelect_Slips(m) ==
    CASE m.assistState = "ASSIST_TOP" ->
            ( CASE m.assistTopSelectedItem = 0 ->
                      [ m EXCEPT !.assistState = "ASSIST_MENU",
                                 !.position = m.assistToneIndex ]
                [] m.assistTopSelectedItem = 1 ->
                      LET stretchPos == TruncDiv(m.octaveStretch, 100) * 10
                      IN  [ m EXCEPT !.assistState = "ASSIST_STRETCH",
                                     !.position = stretchPos,
                                     !.lastPos = stretchPos ]
                [] m.assistTopSelectedItem = 2 ->
                      [ m EXCEPT !.currentState = "MAIN_MENU",
                                 !.assistState = "ASSIST_TOP" ]
                [] OTHER -> m )
      [] m.assistState = "ASSIST_MENU" ->
            IF m.assistToneIndex = Len(assistTones) - 1
            THEN [ m EXCEPT !.assistState = "ASSIST_TOP",
                            !.position = m.assistTopSelectedItem ]
            ELSE playAssistTone([ m EXCEPT !.assistState = "ASSIST_PLAYING" ])
      [] m.assistState = "ASSIST_PLAYING" ->
            [ stopTone(m) EXCEPT !.assistState = "ASSIST_TOP" ]
      [] m.assistState = "ASSIST_STRETCH" ->
            [ saveStretchSetting(m) EXCEPT !.assistState = "ASSIST_TOP",
                                           !.position = m.assistTopSelectedItem ]

handleToneAssistSelect(m) ==
    CASE m.assistState = "ASSIST_TOP" ->
            ( CASE m.assistTopSelectedItem = 0 ->
                      [ m EXCEPT !.assistState = "ASSIST_MENU",
                                 !.position = m.assistToneIndex ]
                [] m.assistTopSelectedItem = 1 ->
                      LET stretchPos == RoundDiv(m.octaveStretch * 10, 100)
                      IN  [ m EXCEPT !.assistState = "ASSIST_STRETCH",
                                     !.position = stretchPos,
                                     !.lastPos = stretchPos ]
                [] m.assistTopSelectedItem = 2 ->
                      [ m EXCEPT !.currentState = "MAIN_MENU",
                                 !.assistState = "ASSIST_TOP" ]
                [] OTHER -> m )
      [] m.assistState = "ASSIST_MENU" ->
            IF m.assistToneIndex = Len(assistTones) - 1
            THEN [ m EXCEPT !.assistState = "ASSIST_TOP",
                            !.position = m.assistTopSelectedItem ]
            ELSE playAssistTone([ m EXCEPT !.assistState = "ASSIST_PLAYING" ])
      [] m.assistState = "ASSIST_PLAYING" ->
            [ stopTone(m) EXCEPT !.assistState = "ASSIST_MENU" ]
      [] m.assistState = "ASSIST_STRETCH" ->
            [ saveStretchSetting(m) EXCEPT !.assistState = "ASSIST_TOP",
                                           !.position = m.assistTopSelectedItem ]

\* handleSelect(), lines 385-397: the switch.
selectSwitch(m) ==
    CASE m.currentState = "MAIN_MENU" -> handleMainMenuSelect(m)
      [] m.currentState = "TONE_MENU" -> handleToneMenuSelect(m)
      [] m.currentState = "TONE_PLAY_A440" -> handleA440Select(m)
      [] m.currentState = "TONE_ASSIST" -> handleToneAssistSelect(m)
      [] OTHER -> [ m EXCEPT !.currentState = "MAIN_MENU" ]

\* A slip: the dispatch does not begin with stopTone().
selectDispatch_NoStop(m) == selectSwitch(m)

\* handleSelect(), lines 383-397: stopTone() and the switch.
selectDispatch(m) == selectSwitch(stopTone(m))

\* handleSelect(), lines 399-400: selectedItem = 0; renderMenu().
selectFinish(m) == renderMenu([ m EXCEPT !.selectedItem = 0 ])

handleSelect(m) == selectFinish(selectDispatch(m))

(***************************************************************************)
(* uiTask, first half of the loop body: encoder.tick() and the button.     *)
(***************************************************************************)
\* A slip: the long-press exit leaves toneStarted as it is.
longPressExit_KeepsFlag(m) ==
    renderMenu([ stopTone(m) EXCEPT !.currentState = "TONE_MENU",
                                    !.selectedItem = 0,
                                    !.a440SelectedItem = 0,
                                    !.position = 0,
                                    !.uiEvent = "longExit" ])

\* The release branch taken in TONE_PLAY_A440 after a long hold.
longPressExit(m) ==
    renderMenu([ stopTone(m) EXCEPT !.toneStarted = FALSE,
                                    !.currentState = "TONE_MENU",
                                    !.selectedItem = 0,
                                    !.a440SelectedItem = 0,
                                    !.position = 0,
                                    !.uiEvent = "longExit" ])

\* The release branch taken in TONE_PLAY_A440 after a shorter hold.
shortPressToggle(m) ==
    LET freq == A440Freq(m.a440OffsetCents)
        m1   == [ m EXCEPT !.toneStarted = ~m.toneStarted, !.uiEvent = "toggle" ]
    IN  IF m1.toneStarted THEN playTone(m1, freq) ELSE stopTone(m1)

\* A slip: the hold is compared with > instead of >=.
buttonReleased_Above(m) ==
    IF m.currentState = "TONE_PLAY_A440" /\ m.heldTime > LongPressMs
    THEN longPressExit(m)
    ELSE IF m.currentState = "TONE_PLAY_A440"
    THEN shortPressToggle(m)
    ELSE handleSelect([ m EXCEPT !.uiEvent = "select" ])

buttonReleased(m) ==
    IF m.currentState = "TONE_PLAY_A440" /\ m.heldTime >= LongPressMs
    THEN longPressExit(m)
    ELSE IF m.currentState = "TONE_PLAY_A440"
    THEN shortPressToggle(m)
    ELSE handleSelect([ m EXCEPT !.uiEvent = "select" ])

buttonHandling(m, currentButtonState) ==
    LET down == ~m.buttonHeld /\ m.lastButtonState = "HIGH"
                              /\ currentButtonState = "LOW"
        m1 == IF down
              THEN [ m EXCEPT !.heldTime = 0, !.buttonHeld = TRUE,
                              !.uiEvent = "down" ]
              ELSE [ m EXCEPT !.uiEvent = "idle" ]
        up == m1.buttonHeld /\ m1.lastButtonState = "LOW"
                            /\ currentButtonState = "HIGH"
        m2 == IF up
              THEN [ buttonReleased([ m1 EXCEPT !.buttonHeld = FALSE ])
                        EXCEPT !.heldTime = 0 ]
              ELSE m1
    IN  [ m2 EXCEPT !.lastButtonState = currentButtonState ]

(***************************************************************************)
(* uiTask, second half of the loop body: the rotary handling.              *)
(***************************************************************************)
\* A slip: the "Back" slot of the playing list leads to the tone list.
rotateAssist_ToToneList(m, currentPos) ==
    CASE m.assistState = "ASSIST_TOP" ->
            LET pos == constrain(currentPos, 0, 2)
            IN  [ m EXCEPT !.position = pos, !.assistTopSelectedItem = pos ]
      [] m.assistState = "ASSIST_MENU" ->
            LET pos == constrain(currentPos, 0, Len(assistTones) - 1)
            IN  [ m EXCEPT !.position = pos, !.assistToneIndex = pos ]
      [] m.assistState = "ASSIST_PLAYING" ->
            LET pos == constrain(currentPos, 0, Len(assistTones) - 1)
                m1  == [ m EXCEPT !.position = pos ]
                m2  == [ m1 EXCEPT !.assistToneIndex = pos ]
            IN  IF pos # m.assistToneIndex
                THEN IF m2.assistToneIndex = 5
                     THEN [ stopTone(m2) EXCEPT !.assistState = "ASSIST_MENU" ]
                     ELSE playAssistTone(m2)
                ELSE m1
      [] m.assistState = "ASSIST_STRETCH" ->
            [ m EXCEPT !.octaveStretch =
                          constrain(currentPos * 10, -StretchLimit, StretchLimit) ]

rotateAssist(m, currentPos) ==
    CASE m.assistState = "ASSIST_TOP" ->
            LET menuLength == 3
                pos == constrain(currentPos, 0, menuLength - 1)
            IN  [ m EXCEPT !.position = pos, !.assistTopSelectedItem = pos ]
      [] m.assistState = "ASSIST_MENU" ->
            LET pos == constrain(currentPos, 0, Len(assistTones) - 1)
            IN  [ m EXCEPT !.position = pos, !.assistToneIndex = pos ]
      [] m.assistState = "ASSIST_PLAYING" ->
            LET pos == constrain(currentPos, 0, Len(assistTones) - 1)
                m1  == [ m EXCEPT !.position = pos ]
                m2  == [ m1 EXCEPT !.assistToneIndex = pos ]
            IN  IF pos # m.assistToneIndex
                THEN IF m2.assistToneIndex = 5
                     THEN [ stopTone(m2) EXCEPT
                                !.assistState = "ASSIST_TOP",
                                !.position = m2.assistTopSelectedItem ]
                     ELSE playAssistTone(m2)
                ELSE m1
      [] m.assistState = "ASSIST_STRETCH" ->
            [ m EXCEPT !.octaveStretch =
                          constrain(currentPos * 10, -StretchLimit, StretchLimit) ]

\* A slip: the offset is not constrained.
rotateA440_NoClamp(m, delta) ==
    LET step == 10 * delta
        m1 == [ m EXCEPT !.a440OffsetCents = m.a440OffsetCents + step ]
    IN  IF m1.toneStarted THEN tone(m1, A440Freq(m1.a440OffsetCents)) ELSE m1

rotateA440(m, delta) ==
    LET step == 10 * delta
        m1 == [ m EXCEPT !.a440OffsetCents =
                            constrain(m.a440OffsetCents + step,
                                      -OffsetLimit, OffsetLimit) ]
    IN  IF m1.toneStarted THEN tone(m1, A440Freq(m1.a440OffsetCents)) ELSE m1

rotateMenu(m, currentPos) ==
    LET menuLength == getMenuLength(m.currentState)
        pos == constrain(currentPos, 0, menuLength - 1)
        m1  == [ m EXCEPT !.position = pos, !.selectedItem = pos ]
    IN  IF m1.currentState = "BEAT_MENU"
        THEN [ m1 EXCEPT !.selectedBeatRateIndex = m1.selectedItem ]
        ELSE m1

\* A slip: a movement seen inside the 150 ms window is taken as applied.
rotaryHandling_DropsInWindow(m) ==
    LET currentPos == m.position
        delta == currentPos - m.lastPos
    IN  IF m.sinceUpdate >= DebounceMs /\ Abs(delta) >= 1
        THEN LET m1 == [ m EXCEPT !.lastPos = currentPos ]
                 m2 == CASE m1.currentState = "TONE_ASSIST" ->
                                rotateAssist(m1, currentPos)
                         [] m1.currentState = "TONE_PLAY_A440" ->
                                rotateA440(m1, delta)
                         [] OTHER -> rotateMenu(m1, currentPos)
             IN  [ renderMenu(m2) EXCEPT !.sinceUpdate = 0, !.rotated = TRUE ]
        ELSE [ m EXCEPT !.rotated = FALSE, !.lastPos = currentPos ]

rotaryHandling(m) ==
    LET currentPos == m.position
        delta == currentPos - m.lastPos
    IN  IF m.sinceUpdate >= DebounceMs /\ Abs(delta) >= 1
        THEN LET m1 == [ m EXCEPT !.lastPos = currentPos ]
                 m2 == CASE m1.currentState = "TONE_ASSIST" ->
                                rotateAssist(m1, currentPos)
                         [] m1.currentState = "TONE_PLAY_A440" ->
                                rotateA440(m1, delta)
                         [] OTHER -> rotateMenu(m1, currentPos)
             IN  [ renderMenu(m2) EXCEPT !.sinceUpdate = 0, !.rotated = TRUE ]
        ELSE [ m EXCEPT !.rotated = FALSE ]

(***************************************************************************)
(* setup(): the memory after a power-on, given what the flash holds.       *)
(***************************************************************************)
setup(p) ==
    [ currentState |-> "MAIN_MENU", selectedItem |-> 0,
      assistState |-> "ASSIST_MENU", assistTopSelectedItem |-> 0,
      assistToneIndex |-> 0, octaveStretch |-> getFloat(p),
      a440State |-> "A440_MENU", a440SelectedItem |-> 0,
      a440OffsetCents |-> 0, toneStarted |-> FALSE,
      selectedBeatRateIndex |-> 0, assistFrequencies |-> baseFrequencies,
      position |-> 0, lastPos |-> 0, lastButtonState |-> "HIGH",
      buttonHeld |-> FALSE, heldTime |-> 0, sinceUpdate |-> DebounceMs,
      prefs |-> p, pin8 |-> Silent, screen |-> Splash, calls |-> << >>,
      uiEvent |-> "boot", rotated |-> FALSE ]

\* The variables hold the memory m and the tasks are at the top of their loops.
Holds(m) ==
    /\ currentState = m.currentState
    /\ selectedItem = m.selectedItem
    /\ assistState = m.assistState
    /\ assistTopSelectedItem = m.assistTopSelectedItem
    /\ assistToneIndex = m.assistToneIndex
    /\ octaveStretch = m.octaveStretch
    /\ a440State = m.a440State
    /\ a440SelectedItem = m.a440SelectedItem
    /\ a440OffsetCents = m.a440OffsetCents
    /\ toneStarted = m.toneStarted
    /\ selectedBeatRateIndex = m.selectedBeatRateIndex
    /\ assistFrequencies = m.assistFrequencies
    /\ position = m.position
    /\ lastPos = m.lastPos
    /\ lastButtonState = m.lastButtonState
    /\ buttonHeld = m.buttonHeld
    /\ heldTime = m.heldTime
    /\ sinceUpdate = m.sinceUpdate
    /\ prefs = m.prefs
    /\ pin8 = m.pin8
    /\ screen = m.screen
    /\ calls = m.calls
    /\ uiEvent = m.uiEvent
    /\ rotated = m.rotated
    /\ sinceBeat = BeatCapMs
    /\ uiPc = "button"
    /\ still = FALSE
    /\ tickGap = -1
    /\ beatSteady = FALSE
    /\ turns = 0
    /\ presses = 0
    /\ audioPc = "check"
    /\ envPc = "check"

Init == Holds(setup(<< >>))

(***************************************************************************)
(* The tasks.                                                              *)
(***************************************************************************)
\* What the hand does to the knob between two passes of uiTask, in detents.
TurnSet == { -Spin, -1, 1, Spin }

\* uiTask, lines 225-266: encoder.tick(), then the button.
uiButton(currentButtonState, d) ==
    /\ uiPc = "button"
    /\ d # 0 => turns < MaxTurns
    /\ (currentButtonState = "LOW" /\ lastButtonState = "HIGH") => presses < MaxPresses
    /\ LET m0 == [ Mem EXCEPT !.position = @ + d, !.rotated = FALSE ]
           m  == buttonHandling(m0, currentButtonState)
       IN  /\ Store(m)
           /\ still' = IF d # 0 THEN FALSE
                       ELSE IF m.uiEvent \in { "select", "longExit" }
                            THEN position = lastPos
                            ELSE still
    /\ turns' = IF d # 0 THEN turns + 1 ELSE turns
    /\ presses' = IF currentButtonState = "LOW" /\ lastButtonState = "HIGH"
                  THEN presses + 1 ELSE presses
    /\ uiPc' = "rotary"
    /\ UNCHANGED << sinceBeat, audioPc, envPc >>

\* uiTask, lines 268-335: the rotary handling, then vTaskDelay.
uiRotary ==
    /\ uiPc = "rotary"
    /\ Store(rotaryHandling(Mem))
    /\ uiPc' = "button"
    /\ UNCHANGED << sinceBeat, still, turns, presses, audioPc, envPc >>

uiTask ==
    \/ \E currentButtonState \in { "HIGH", "LOW" }, d \in TurnSet \cup { 0 } :
          uiButton(currentButtonState, d)
    \/ uiRotary

\* A slip: a tick is due one check late.
BeatDue_Late(since, index) ==
    since > 1000 \div beatRates[index + 1] + AudioDelayMs

\* handleBeatRate(): is a tick due, at the rate of selectedBeatRateIndex?
BeatDue(since, index) == since >= 1000 \div beatRates[index + 1]

\* audioTask: one pass of its loop, up to its vTaskDelay.
audioTask ==
    /\ IF currentState = "BEAT_MENU" /\ BeatDue(sinceBeat, selectedBeatRateIndex)
       THEN /\ sinceBeat' = 0
            /\ pin8' = [ kind |-> "tick", hz |-> BeatTickHz, left |-> BeatTickMs ]
            /\ tickGap' = IF beatSteady THEN sinceBeat ELSE -1
            /\ beatSteady' = TRUE
       ELSE UNCHANGED << sinceBeat, pin8, tickGap, beatSteady >>
    /\ UNCHANGED << currentState, selectedItem, assistState,
                    assistTopSelectedItem, assistToneIndex, octaveStretch,
                    a440State, a440SelectedItem, a440OffsetCents, toneStarted,
                    selectedBeatRateIndex, assistFrequencies, position,
                    lastPos, lastButtonState, buttonHeld, heldTime,
                    sinceUpdate, prefs, screen, calls, uiPc, uiEvent, rotated,
                    still, turns, presses, audioPc, envPc >>

\* envTask: one pass of its loop.
envTask ==
    /\ currentState = "ENV_MENU"
    /\ screen' = renderMenu(Mem).screen
    /\ UNCHANGED << currentState, selectedItem, assistState,
                    assistTopSelectedItem, assistToneIndex, octaveStretch,
                    a440State, a440SelectedItem, a440OffsetCents, toneStarted,
                    selectedBeatRateIndex, assistFrequencies, position,
                    lastPos, lastButtonState, buttonHeld, heldTime,
                    sinceUpdate, sinceBeat, prefs, pin8, calls, uiPc,
                    uiEvent, rotated, still, tickGap, beatSteady, turns, presses,
                    audioPc, envPc >>

\* millis() advances by dt while the tasks sleep in vTaskDelay: a task that
\* was preempted inside its loop body has finished the body by then.
\* audioTask sleeps AudioDelayMs at a time, so a due tick is not slept over.
Elapse(dt) ==
    /\ uiPc = "button" /\ audioPc = "check" /\ envPc = "check"
    /\ ~(currentState = "BEAT_MENU" /\ BeatDue(sinceBeat, selectedBeatRateIndex))
    /\ heldTime' = IF buttonHeld THEN Min(heldTime + dt, LongPressMs) ELSE heldTime
    /\ sinceUpdate' = Min(sinceUpdate + dt, DebounceMs)
    /\ sinceBeat' = Min(sinceBeat + dt, BeatCapMs)
    /\ pin8' = IF pin8.kind = "tick"
               THEN IF pin8.left > dt THEN [ pin8 EXCEPT !.left = @ - dt ]
                    ELSE Silent
               ELSE pin8
    /\ UNCHANGED << currentState, selectedItem, assistState,
                    assistTopSelectedItem, assistToneIndex, octaveStretch,
                    a440State, a440SelectedItem, a440OffsetCents, toneStarted,
                    selectedBeatRateIndex, assistFrequencies, position,
                    lastPos, lastButtonState, buttonHeld, prefs, screen, calls,
                    uiPc, uiEvent, rotated, still, tickGap, beatSteady, turns, presses,
                    audioPc, envPc >>

ElapseTick == Elapse(TickMs)

ElapseQuantum == Elapse(AudioDelayMs)

\* Power off and on again: setup() runs on what the flash holds.
Restart ==
    /\ uiEvent # "boot"
    /\ Store(setup(prefs))
    /\ sinceBeat' = BeatCapMs
    /\ uiPc' = "button"
    /\ still' = FALSE
    /\ audioPc' = "check"
    /\ envPc' = "check"
    /\ UNCHANGED << turns, presses >>

Next == uiTask \/ audioTask \/ envTask \/ ElapseTick \/ Restart

Spec == Init /\ [][Next]_vars

(***************************************************************************)
(* The beat worker alone, at its own resolution: BEAT_MENU is showing, a   *)
(* rate has been dialled, and the knob and the button are left alone.      *)
(***************************************************************************)
InitBeat ==
    \E r \in 0 .. Len(beatRates) - 1 :
        LET m == [ setup(<< >>) EXCEPT !.currentState = "BEAT_MENU",
                                       !.position = r,
                                       !.lastPos = r,
                                       !.uiEvent = "idle" ]
        IN  /\ Holds([ renderMenu(rotateMenu(m, r)) EXCEPT !.sinceUpdate = 0,
                                                           !.rotated = TRUE ])

NextBeat == audioTask \/ ElapseQuantum

SpecBeat == InitBeat /\ [][NextBeat]_vars

(***************************************************************************)
(* Tune Assist's tone list alone, for every stretch the flash can hold and *)
(* every tone: the device was switched on and the user went Main -> Tone   *)
(* Generator -> Tuning Assist -> Play Tones and dialled a tone; from there *)
(* the button alone, for as long as it acts on the tone list.              *)
(***************************************************************************)
\* What StretchEdit can commit: constrain(currentPos * 0.1f, -3.0f, 3.0f).
StoredStretches ==
    { 10 * k : k \in -(StretchLimit \div 10) .. (StretchLimit \div 10) }

InitAssist ==
    \E p \in { << >> } \cup { << s >> : s \in StoredStretches },
       i \in 0 .. Len(assistTones) - 1 :
        LET m1 == handleSelect([ setup(p) EXCEPT !.uiEvent = "select" ])
            m2 == rotaryHandling([ m1 EXCEPT !.position = 1 ])
            m3 == handleSelect([ m2 EXCEPT !.calls = << >> ])
            m4 == handleSelect([ m3 EXCEPT !.calls = << >> ])
            m5 == rotaryHandling([ m4 EXCEPT !.sinceUpdate = DebounceMs,
                                             !.calls = << >> ])
            m6 == rotaryHandling([ m5 EXCEPT !.position = i,
                                             !.sinceUpdate = DebounceMs,
                                             !.calls = << >> ])
        IN  Holds(m6)

InToneList ==
    /\ currentState = "TONE_ASSIST"
    /\ assistState \in { "ASSIST_MENU", "ASSIST_PLAYING" }

uiButtonToneList ==
    \E currentButtonState \in { "HIGH", "LOW" } :
        InToneList /\ uiButton(currentButtonState, 0)

NextAssist == uiButtonToneList \/ uiRotary \/ ElapseTick

SpecAssist == InitAssist /\ [][NextAssist]_vars

(***************************************************************************)
(* Tune Assist alone, for a flash that is empty or holds a stretch of an   *)
(* earlier session: the device was switched on and the user went Main ->   *)
(* Tone Generator -> Tuning Assist; from there the knob and the button,    *)
(* for as long as TONE_ASSIST shows.                                       *)
(***************************************************************************)
FlashAtPowerOn == { << >>, << -120 >>, << 300 >> }

InitTune ==
    \E p \in FlashAtPowerOn :
        LET m1 == handleSelect([ setup(p) EXCEPT !.uiEvent = "select" ])
            m2 == rotaryHandling([ m1 EXCEPT !.position = 1 ])
            m3 == handleSelect([ m2 EXCEPT !.calls = << >> ])
        IN  Holds([ m3 EXCEPT !.rotated = FALSE ]) /\ uiPc = "button"

uiTaskInTune == currentState = "TONE_ASSIST" /\ uiTask

NextTune == uiTaskInTune \/ ElapseTick

SpecTune == InitTune /\ [][NextTune]_vars

(***************************************************************************)
(* The three tasks at the grain of the scheduler.  All three are created   *)
(* on core 1 with priority 1, so the tick interrupt can switch between     *)
(* them inside a loop body: between audioTask's and envTask's test of      *)
(* currentState and the call the test guards, and inside handleSelect()    *)
(* after stopTone() and between the write of currentState and the reset of *)
(* selectedItem.  A task that was switched out runs again within a few     *)
(* ticks, so it has finished its loop body before uiTask, which sleeps     *)
(* 10 ms after each pass, starts the next pass.                            *)
(***************************************************************************)
\* What audioTask and envTask have no assignment to.
uiOwned == << currentState, selectedItem, assistState, assistTopSelectedItem,
              assistToneIndex, octaveStretch, a440State, a440SelectedItem,
              a440OffsetCents, toneStarted, selectedBeatRateIndex,
              assistFrequencies, position, lastPos, lastButtonState,
              buttonHeld, heldTime, sinceUpdate, prefs, calls, uiPc, uiEvent,
              rotated, still, turns, presses >>

\* This pass of uiTask takes the branch that calls handleSelect().
SelectReleased(currentButtonState) ==
    /\ buttonHeld /\ lastButtonState = "LOW" /\ currentButtonState = "HIGH"
    /\ currentState # "TONE_PLAY_A440"

\* uiTask, lines 225-262 and 383: a pass up to the stopTone() of
\* handleSelect().
uiSelectBegin(d) ==
    /\ uiPc = "button" /\ audioPc = "check" /\ envPc = "check"
    /\ SelectReleased("HIGH")
    /\ d # 0 => turns < MaxTurns
    /\ LET m0 == [ Mem EXCEPT !.position = @ + d, !.rotated = FALSE,
                              !.buttonHeld = FALSE, !.uiEvent = "select" ]
       IN  /\ Store(stopTone(m0))
           /\ still' = IF d # 0 THEN FALSE ELSE position = lastPos
    /\ turns' = IF d # 0 THEN turns + 1 ELSE turns
    /\ uiPc' = "switch"
    /\ UNCHANGED << sinceBeat, presses, audioPc, envPc >>

\* handleSelect(), lines 385-397: the switch.
uiSelectSwitch ==
    /\ uiPc = "switch"
    /\ Store(selectSwitch([ Mem EXCEPT !.calls = calls ]))
    /\ uiPc' = "select"
    /\ UNCHANGED << sinceBeat, still, turns, presses, audioPc, envPc >>

\* uiTask, lines 399-400 and 266: the rest of handleSelect() and of the
\* button handling.
uiSelectFinish ==
    /\ uiPc = "select"
    /\ Store([ selectFinish([ Mem EXCEPT !.calls = calls ])
                  EXCEPT !.heldTime = 0, !.lastButtonState = "HIGH" ])
    /\ uiPc' = "rotary"
    /\ UNCHANGED << sinceBeat, still, turns, presses, audioPc, envPc >>

\* uiTask, lines 225-266, on a pass that does not call handleSelect().
uiOther(currentButtonState, d) ==
    /\ audioPc = "check" /\ envPc = "check"
    /\ ~SelectReleased(currentButtonState)
    /\ uiButton(currentButtonState, d)

uiTaskSliced ==
    \/ \E d \in TurnSet \cup { 0 } : uiSelectBegin(d)
    \/ uiSelectSwitch
    \/ uiSelectFinish
    \/ \E currentButtonState \in { "HIGH", "LOW" }, d \in TurnSet \cup { 0 } :
          uiOther(currentButtonState, d)
    \/ uiRotary

\* audioTask, line 343: the test of currentState.
audioCheck ==
    /\ audioPc = "check"
    /\ currentState = "BEAT_MENU"
    /\ audioPc' = "beat"
    /\ UNCHANGED << uiOwned, sinceBeat, pin8, screen, tickGap, beatSteady, envPc >>

\* audioTask, line 344: handleBeatRate().
audioBeat ==
    /\ audioPc = "beat"
    /\ IF BeatDue(sinceBeat, selectedBeatRateIndex)
       THEN /\ sinceBeat' = 0
            /\ pin8' = [ kind |-> "tick", hz |-> BeatTickHz, left |-> BeatTickMs ]
            /\ tickGap' = IF beatSteady THEN sinceBeat ELSE -1
            /\ beatSteady' = ( currentState = "BEAT_MENU" )
       ELSE UNCHANGED << sinceBeat, pin8, tickGap, beatSteady >>
    /\ audioPc' = "check"
    /\ UNCHANGED << uiOwned, screen, envPc >>

\* envTask, line 356: the test of currentState.
envCheck ==
    /\ envPc = "check"
    /\ currentState = "ENV_MENU"
    /\ envPc' = "render"
    /\ UNCHANGED << uiOwned, sinceBeat, pin8, screen, tickGap, beatSteady, audioPc >>

\* A slip: envTask resets the cursor before it renders.
envRender_ResetsCursor ==
    /\ envPc = "render"
    /\ selectedItem' = 0
    /\ screen' = renderMenu([ Mem EXCEPT !.selectedItem = 0 ]).screen
    /\ envPc' = "check"
    /\ UNCHANGED << currentState, assistState, assistTopSelectedItem,
                    assistToneIndex, octaveStretch, a440State, a440SelectedItem,
                    a440OffsetCents, toneStarted, selectedBeatRateIndex,
                    assistFrequencies, position, lastPos, lastButtonState,
                    buttonHeld, heldTime, sinceUpdate, prefs, calls, uiPc,
                    uiEvent, rotated, still, turns, presses,
                    sinceBeat, pin8, tickGap, beatSteady, audioPc >>

\* envTask, line 357: renderMenu().
envRender ==
    /\ envPc = "render"
    /\ screen' = renderMenu(Mem).screen
    /\ envPc' = "check"
    /\ UNCHANGED << uiOwned, sinceBeat, pin8, tickGap, beatSteady, audioPc >>

NextSliced ==
    uiTaskSliced \/ audioCheck \/ audioBeat \/ envCheck \/ envRender
        \/ ElapseTick \/ Restart

SpecSliced == Init /\ [][NextSliced]_vars

(***************************************************************************)
(* Properties.                                                             *)
(***************************************************************************)
\* uiTask takes its button-released branch in this step.
Released ==
    /\ uiPc = "button" /\ uiPc' = "rotary"
    /\ buttonHeld /\ lastButtonState = "LOW" /\ lastButtonState' = "HIGH"

\* The cursor that rotation drives in the state showing is inside its menu.
CursorInMenu ==
    CASE currentState = "TONE_ASSIST" /\ assistState = "ASSIST_TOP" ->
            0 <= assistTopSelectedItem /\ assistTopSelectedItem < Len(assistTopMenu)
      [] currentState = "TONE_ASSIST"
            /\ assistState \in { "ASSIST_MENU", "ASSIST_PLAYING" } ->
            0 <= assistToneIndex /\ assistToneIndex < Len(assistTones)
      [] currentState = "TONE_ASSIST" /\ assistState = "ASSIST_STRETCH" -> TRUE
      [] currentState = "TONE_PLAY_A440" -> TRUE
      [] OTHER ->
            0 <= selectedItem /\ selectedItem < getMenuLength(currentState)

\* C1: after any applied rotation, in every menu state, the cursor that the
\* rotation drives is at least 0 and less than the length of that state's menu.
C1_CursorInMenuAfterRotate == rotated => CursorInMenu

\* C2: a release in TONE_PLAY_A440 after 800 ms or more goes to TONE_MENU;
\* a shorter release there flips the tone between playing and stopped and
\* stays; a release anywhere else runs the select dispatch whatever the hold;
\* and nothing but the long release leaves TONE_PLAY_A440 while the power is on.
C2_ReleaseDispatch ==
    [][ /\ ( Released /\ currentState = "TONE_PLAY_A440" /\ heldTime >= 800 )
            => ( currentState' = "TONE_MENU" /\ uiEvent' = "longExit" )
        /\ ( Released /\ currentState = "TONE_PLAY_A440" /\ heldTime < 800 )
            => ( /\ currentState' = "TONE_PLAY_A440"
                 /\ toneStarted' = ~toneStarted
                 /\ (pin8'.kind = "tone") = toneStarted'
                 /\ uiEvent' = "toggle" )
        /\ ( Released /\ currentState # "TONE_PLAY_A440" )
            => ( /\ uiEvent' = "select"
                 /\ calls'[1] = "noTone"
                 /\ calls'[Len(calls')] = "render"
                 /\ selectedItem' = 0 )
        /\ ( currentState = "TONE_PLAY_A440" /\ currentState' # "TONE_PLAY_A440" )
            => ( \/ Released /\ heldTime >= 800
                 \/ uiEvent' = "boot" )
      ]_vars

C2_Witness ==
    /\ uiPc = "rotary" /\ uiEvent = "longExit"
    /\ currentState = "TONE_MENU" /\ a440OffsetCents # 0

\* The value the encoder counter stands for in the state showing.
LogicalValue ==
    CASE currentState \in { "MAIN_MENU", "TONE_MENU", "BEAT_MENU" } -> selectedItem
      [] currentState = "TONE_PLAY_A440" -> TruncDiv(a440OffsetCents * 10, 100)
      [] currentState = "TONE_ASSIST" /\ assistState = "ASSIST_TOP" ->
            assistTopSelectedItem
      [] currentState = "TONE_ASSIST"
            /\ assistState \in { "ASSIST_MENU", "ASSIST_PLAYING" } -> assistToneIndex
      [] currentState = "TONE_ASSIST" /\ assistState = "ASSIST_STRETCH" ->
            RoundDiv(octaveStretch * 10, 100)
      [] OTHER -> position

\* C3: right after every select dispatch, after the long-press exit and after
\* the exit from ASSIST_PLAYING over the "Back" slot, the encoder counter is
\* the logical selection value of the state now showing (the knob having been
\* at rest when the button was released).
C3_EncoderProjected ==
    /\ ( uiPc = "rotary" /\ uiEvent \in { "select", "longExit" } /\ still )
          => position = LogicalValue
    /\ ( /\ rotated /\ uiPc = "button" /\ currentState = "TONE_ASSIST"
         /\ assistState = "ASSIST_TOP" /\ assistToneIndex = 5
         /\ calls # << >> /\ calls[1] = "noTone" )
          => position = LogicalValue

C5_StretchStoredAndLoaded ==
    [][ /\ prefs' # prefs
            => ( /\ Released
                 /\ currentState = "TONE_ASSIST" /\ assistState = "ASSIST_STRETCH"
                 /\ prefs' = << octaveStretch >> )
        /\ ( Released /\ currentState = "TONE_ASSIST"
                      /\ assistState = "ASSIST_STRETCH" )
            => prefs' = << octaveStretch >>
        /\ uiEvent' = "boot"
            => ( /\ prefs' = prefs
                 /\ octaveStretch' = IF prefs = << >> THEN 0 ELSE prefs[1] )
      ]_vars

C5_Witness ==
    /\ uiEvent = "boot" /\ prefs # << >>
    /\ prefs[1] # 0 /\ octaveStretch = prefs[1]

\* C6: while BEAT_MENU shows and the rate r stays, two consecutive ticks are
\* 1000/r ms apart to within the 5 ms the beat worker sleeps between checks.
C6_BeatSpacing ==
    tickGap # -1 =>
        LET r == beatRates[selectedBeatRateIndex + 1]
        IN  Abs(tickGap * r - 1000) <= 5 * r

C6_Witness ==
    /\ tickGap = 145 /\ selectedBeatRateIndex = 3 /\ currentState = "BEAT_MENU"

\* C7: octaveStretch stays within [-3.0, 3.0] and a440OffsetCents within
\* [-50.0, 50.0], whatever is turned and pressed.
C7_ParametersInRange ==
    /\ -300 <= octaveStretch /\ octaveStretch <= 300
    /\ -5000 <= a440OffsetCents /\ a440OffsetCents <= 5000

C7_Witness ==
    /\ rotated /\ currentState = "TONE_PLAY_A440"
    /\ a440OffsetCents = 5000 /\ position > 500

\* C8: the A4 entry of assistFrequencies is 440.00 Hz at power-on and after
\* every recomputation of the table, for every stretch.
C8_A4Fixed == assistFrequencies[5] = 44000

C8_Witness ==
    /\ octaveStretch = 300 /\ assistState = "ASSIST_PLAYING"
    /\ pin8.kind = "tone" /\ assistFrequencies[2] # baseFrequencies[2]

\* C9: after a state transition made with the knob at rest, and for as long as
\* the knob is not turned, no rotate update changes a cursor or a parameter.
C9_NoSpuriousRotate ==
    [][ ( still /\ uiPc = "rotary" )
            => UNCHANGED << selectedItem, assistTopSelectedItem, assistToneIndex,
                            selectedBeatRateIndex, octaveStretch,
                            a440OffsetCents >>
      ]_vars

\* C10: a440OffsetCents changes only in TONE_PLAY_A440 with a440State at
\* A440_OFFSET (or by a power-on); with a440State at A440_MENU a rotation
\* leaves it as it is.
C10_OffsetOnlyInOffsetEdit ==
    [][ a440OffsetCents' # a440OffsetCents
            => ( \/ currentState = "TONE_PLAY_A440" /\ a440State = "A440_OFFSET"
                 \/ uiEvent' = "boot" )
      ]_vars

\* uiTask applies a rotation in ASSIST_PLAYING that moves the tone index.
PlayingSlotChange ==
    /\ uiPc = "rotary" /\ rotated'
    /\ currentState = "TONE_ASSIST" /\ assistState = "ASSIST_PLAYING"
    /\ assistToneIndex' # assistToneIndex

\* The move is onto one of the five tones: the table is recomputed from the
\* stretch and the tone of the new slot sounds, still in ASSIST_PLAYING.
PlayingLiveSwitch ==
    ( PlayingSlotChange /\ assistToneIndex' # 5 )
        => ( /\ currentState' = "TONE_ASSIST" /\ assistState' = "ASSIST_PLAYING"
             /\ assistFrequencies' =
                    updateAssistFreqsFromStretch(Mem).assistFrequencies
             /\ pin8' = [ kind |-> "tone",
                          hz |-> ToHz(assistFrequencies'[assistToneIndex' + 1]),
                          left |-> 0 ] )

\* C11: in ASSIST_PLAYING an applied rotation onto another tone recomputes the
\* table and switches the sounding tone, staying in ASSIST_PLAYING; an applied
\* rotation onto the "Back" slot stops the tone and goes to ASSIST_TOP with
\* the encoder counter at assistTopSelectedItem.
C11_PlayingRotation ==
    [][ /\ PlayingLiveSwitch
        /\ ( PlayingSlotChange /\ assistToneIndex' = 5 )
            => ( /\ pin8' = Silent
                 /\ currentState' = "TONE_ASSIST" /\ assistState' = "ASSIST_TOP"
                 /\ position' = assistTopSelectedItem )
      ]_vars

\* C11 as stated: the "Back" slot leads to ASSIST_MENU.
C11_BackToToneSelect ==
    [][ /\ PlayingLiveSwitch
        /\ ( PlayingSlotChange /\ assistToneIndex' = 5 )
            => ( pin8' = Silent /\ assistState' = "ASSIST_MENU" )
      ]_vars

C11_Witness ==
    /\ rotated /\ uiPc = "button"
    /\ currentState = "TONE_ASSIST" /\ assistState = "ASSIST_TOP"
    /\ assistToneIndex = 5 /\ pin8 = Silent
    /\ calls # << >> /\ calls[1] = "noTone"

\* uiTask takes its button-released branch in TONE_ASSIST with this sub-state.
ReleasedIn(sub) ==
    Released /\ currentState = "TONE_ASSIST" /\ assistState = sub

\* C12: select in TONE_ASSIST.  ASSIST_TOP: item 0 goes to ASSIST_MENU with
\* the encoder counter at assistToneIndex, item 1 to ASSIST_STRETCH with the
\* counter at round(octaveStretch * 10), item 2 to MAIN_MENU.  ASSIST_MENU:
\* the "Back" slot goes to ASSIST_TOP, any other slot to ASSIST_PLAYING with
\* the tone of that slot sounding.  ASSIST_PLAYING: the tone stops and
\* ASSIST_MENU shows.  ASSIST_STRETCH: octaveStretch is stored and ASSIST_TOP
\* shows.
C12_AssistSelectDispatch ==
    [][ /\ ( ReleasedIn("ASSIST_TOP") /\ assistTopSelectedItem = 0 )
            => ( /\ currentState' = "TONE_ASSIST" /\ assistState' = "ASSIST_MENU"
                 /\ position' = assistToneIndex )
        /\ ( ReleasedIn("ASSIST_TOP") /\ assistTopSelectedItem = 1 )
            => ( /\ currentState' = "TONE_ASSIST" /\ assistState' = "ASSIST_STRETCH"
                 /\ 10 * position' = octaveStretch
                 /\ octaveStretch' = octaveStretch )
        /\ ( ReleasedIn("ASSIST_TOP") /\ assistTopSelectedItem = 2 )
            => currentState' = "MAIN_MENU"
        /\ ( ReleasedIn("ASSIST_MENU") /\ assistToneIndex = 5 )
            => ( /\ currentState' = "TONE_ASSIST" /\ assistState' = "ASSIST_TOP"
                 /\ pin8' = Silent )
        /\ ( ReleasedIn("ASSIST_MENU") /\ assistToneIndex # 5 )
            => ( /\ currentState' = "TONE_ASSIST" /\ assistState' = "ASSIST_PLAYING"
                 /\ assistToneIndex' = assistToneIndex
                 /\ pin8' = [ kind |-> "tone",
                              hz |-> ToHz(assistFrequencies'[assistToneIndex + 1]),
                              left |-> 0 ] )
        /\ ReleasedIn("ASSIST_PLAYING")
            => ( /\ currentState' = "TONE_ASSIST" /\ assistState' = "ASSIST_MENU"
                 /\ pin8' = Silent )
        /\ ReleasedIn("ASSIST_STRETCH")
            => ( /\ currentState' = "TONE_ASSIST" /\ assistState' = "ASSIST_TOP"
                 /\ prefs' = << octaveStretch >> )
      ]_vars

C12_Witness ==
    /\ uiPc = "rotary" /\ uiEvent = "select"
    /\ currentState = "TONE_ASSIST" /\ assistState = "ASSIST_STRETCH"
    /\ octaveStretch = -120 /\ position = -12 /\ prefs = << -120 >>

\* C13: every select dispatch calls noTone() before anything else, so right
\* after it GPIO8 is silent unless this dispatch itself called tone().
C13_SelectStopsFirst ==
    [][ ( Released /\ uiEvent' = "select" )
            => ( /\ calls'[1] = "noTone"
                 /\ pin8'.kind # "tick"
                 /\ pin8'.kind = "tone"
                        => \E k \in 2 .. Len(calls') : calls'[k] = "tone" )
      ]_vars

C13_Witness ==
    /\ uiPc = "rotary" /\ uiEvent = "select"
    /\ currentState = "TONE_ASSIST" /\ assistState = "ASSIST_PLAYING"
    /\ calls = << "noTone", "tone", "render" >> /\ pin8.kind = "tone"

\* This step issues a beat tick on GPIO8.
TickIssued ==
    /\ pin8'.kind = "tick" /\ pin8'.left = BeatTickMs
    /\ sinceBeat' = 0 /\ sinceBeat # 0

\* C14: a beat tick is issued only at a moment when currentState is BEAT_MENU,
\* however the tasks interleave.
C14_TickOnlyInBeatMenu ==
    [][ TickIssued => currentState = "BEAT_MENU" ]_vars

\* envTask returns from its renderMenu() in this step (a power cycle apart).
EnvRendered == envPc = "render" /\ envPc' = "check" /\ uiEvent' = uiEvent

\* C15: envTask calls renderMenu() only at a moment when currentState is
\* ENV_MENU, and what that call draws is the environment view, however the
\* tasks interleave.
C15_EnvRendersEnvView ==
    [][ EnvRendered
            => ( currentState = "ENV_MENU" /\ screen'.state = "ENV_MENU" )
      ]_vars

\* audioTask, or envTask, moves in its loop body in this step.
AudioStep == audioPc' # audioPc /\ uiEvent' = uiEvent

EnvStep == envPc' # envPc /\ uiEvent' = uiEvent

\* C16: no step of audioTask or envTask changes currentState, a440State,
\* assistState, a cursor, a440OffsetCents or octaveStretch, and no step of
\* audioTask draws on the display.
C16_SingleWriter ==
    [][ /\ ( AudioStep \/ EnvStep )
            => UNCHANGED << currentState, a440State, assistState, selectedItem,
                            a440SelectedItem, assistTopSelectedItem,
                            assistToneIndex, a440OffsetCents, octaveStretch >>
        /\ AudioStep => ( screen' = screen /\ calls' = calls )
      ]_vars

C16_Witness ==
    /\ audioPc = "check" /\ pin8.kind = "tick" /\ pin8.left = BeatTickMs
    /\ sinceBeat = 0 /\ currentState = "BEAT_MENU"
    /\ selectedItem = 5 /\ selectedBeatRateIndex = 5

\* uiTask makes its rotary check in this step.
RotaryChecked == uiPc = "rotary" /\ uiPc' = "button" /\ uiEvent' = uiEvent

\* C17: a rotary check applies an update exactly when 150 ms have passed since
\* the last applied update and the encoder counter differs from lastPos; a
\* check that applies nothing leaves counter, lastPos, cursors and parameters
\* as they are, so that the check that applies takes the whole difference
\* between the counter and lastPos.
C17_DebounceCoalesce ==
    [][ RotaryChecked =>
          /\ rotated' <=> ( sinceUpdate >= 150 /\ position # lastPos )
          /\ rotated' => ( lastPos' = position /\ sinceUpdate' = 0 )
          /\ ~rotated' =>
                UNCHANGED << position, lastPos, sinceUpdate, selectedItem,
                             assistTopSelectedItem, assistToneIndex,
                             selectedBeatRateIndex, octaveStretch,
                             a440OffsetCents, screen >>
          /\ ( rotated' /\ currentState = "TONE_PLAY_A440" ) =>
                a440OffsetCents' =
                    constrain(a440OffsetCents + 10 * (position - lastPos),
                              -5000, 5000)
          /\ ( rotated' /\ currentState \in { "MAIN_MENU", "TONE_MENU", "BEAT_MENU" } ) =>
                selectedItem' =
                    constrain(position, 0, getMenuLength(currentState) - 1)
      ]_vars

C17_Witness ==
    /\ uiPc = "button" /\ ~rotated /\ sinceUpdate < 150
    /\ currentState = "TONE_PLAY_A440" /\ a440OffsetCents = 10
    /\ position = 3 /\ lastPos = 1 /\ turns = 3

\* C18: whenever BEAT_MENU shows, the rate that handleBeatRate() ticks at is
\* the rate at the cursor: selectedBeatRateIndex = selectedItem.
C18_BeatRateAtCursor ==
    currentState = "BEAT_MENU" => selectedBeatRateIndex = selectedItem

\* C19: whatever task drew the screen last, the index it used into the label
\* array of the menu it drew was inside that array.
C19_RenderIndexInBounds ==
    /\ screen.state \in { "MAIN_MENU", "TONE_MENU", "BEAT_MENU" }
          => ( 0 <= screen.num /\ screen.num < getMenuLength(screen.state) )
    /\ screen.state \in { "ASSIST_MENU", "ASSIST_PLAYING" }
          => ( 0 <= screen.num /\ screen.num < Len(assistTones) )

\* C20: GPIO8 carries a continuous tone exactly when TONE_PLAY_A440 shows with
\* toneStarted set, or ASSIST_PLAYING of TONE_ASSIST shows with a tone index
\* of 0..4; and toneStarted is set only in TONE_PLAY_A440.
C20_ToneIffPlaying ==
    /\ ( pin8.kind = "tone" )
          <=> ( \/ currentState = "TONE_PLAY_A440" /\ toneStarted
                \/ /\ currentState = "TONE_ASSIST" /\ assistState = "ASSIST_PLAYING"
                   /\ assistToneIndex \in 0 .. 4 )
    /\ toneStarted => currentState = "TONE_PLAY_A440"

C20_Witness ==
    /\ currentState = "TONE_PLAY_A440" /\ toneStarted /\ rotated
    /\ a440OffsetCents = 5000 /\ pin8.kind = "tone" /\ pin8.hz = 452

\* ASSIST_STRETCH of TONE_ASSIST shows.
InStretchEdit == currentState = "TONE_ASSIST" /\ assistState = "ASSIST_STRETCH"

\* This step starts an assist tone.
AssistToneStarted ==
    /\ currentState' = "TONE_ASSIST" /\ pin8'.kind = "tone"
    /\ calls' # calls /\ \E k \in 1 .. Len(calls') : calls'[k] = "tone"

\* C21: whenever ASSIST_STRETCH is not showing, octaveStretch is the value in
\* flash (0 when nothing was stored).  ASSIST_STRETCH is left only by the
\* release that stores octaveStretch (or by a power cycle, which reloads it),
\* and an assist tone is started only outside ASSIST_STRETCH, from a
\* frequency table computed with the stored value.
C21_StretchCommitted ==
    /\ [] ( ~InStretchEdit => octaveStretch = getFloat(prefs) )
    /\ [][ /\ ( InStretchEdit /\ ~InStretchEdit' )
                => \/ /\ Released /\ uiEvent' = "select"
                      /\ prefs' = << octaveStretch >>
                      /\ octaveStretch' = octaveStretch
                   \/ uiEvent' = "boot" /\ octaveStretch' = getFloat(prefs)
           /\ AssistToneStarted
                => /\ ~InStretchEdit /\ ~InStretchEdit'
                   /\ stretchCents(octaveStretch') = stretchCents(getFloat(prefs'))
                   /\ \E i \in 1 .. 5 :
                         pin8'.hz = ToHz(assistFrequencies'[i])
         ]_vars

C21_Witness ==
    /\ uiPc = "rotary" /\ uiEvent = "select"
    /\ currentState = "TONE_ASSIST" /\ assistState = "ASSIST_PLAYING"
    /\ octaveStretch = -110 /\ prefs = << -110 >>
    /\ pin8.kind = "tone" /\ pin8.hz = ToHz(assistFrequencies[1])
    /\ assistFrequencies[1] # baseFrequencies[1]

\* uiTask is back at the top of its loop after a pass that handled a button
\* release or applied a rotation.
InputHandled ==
    /\ uiPc = "button"
    /\ uiEvent \in { "select", "toggle", "longExit" } \/ rotated

\* C22: once uiTask has handled a button release or applied a rotation, the
\* screen is what renderMenu() draws from the current state: the state
\* showing, its cursor and parameters and, in TONE_PLAY_A440, "Playing..." or
\* "Stopped" according to toneStarted.
C22_ScreenCurrent ==
    InputHandled => screen = renderMenu(Mem).screen

====
